---- MODULE Spec2Model ----
(***************************************************************************)
(* Model of gdrive_transfer.py: the breadth-first listing of the items a   *)
(* source account owns (list_owned_in_folders, list_owned_files) and the   *)
(* per-item ownership transfer loop of main.  The Drive service is the     *)
(* environment: a finite set of items with a mime type, an owner, a        *)
(* trashed flag and a set of parent folders; each request may fail.        *)
(***************************************************************************)
EXTENDS Integers, Sequences, FiniteSets, TLC

\* ------------------------------------------------------------------ bounds
\* The item IDs of the remote drive, in the order the remote lists them.
IdOrder == <<"a", "b", "c">>

Ids == {IdOrder[i] : i \in 1..Len(IdOrder)}

\* Longest --folder-id list.
MaxRoots == 2

\* Most child-parent links of the remote drive.
MaxEdges == 3

\* pageSize of the parent-scoped query (200 in the code), scaled down.
ScopedPageSize == 2

\* pageSize of the unscoped query (1000 in the code), scaled down.
UnscopedPageSize == 2

\* Cap on the number of listing requests of one run; never reached by the code
\* as written (RequestCapNotReached).
MaxRequests == 5

\* page_token = None
NoToken == 0

FOLDER == "application/vnd.google-apps.folder"

PLAIN_FILE == "application/octet-stream"

SOURCE == "source_email"

TARGET == "target_email"

STRANGER == "other_email"

\* ------------------------------------------------------------------- state
VARIABLES
    remote,      \* the drive: id -> [mimeType, owner, trashed, parents]
    folder_ids,  \* args.folder_ids / the folder_ids argument
    dry_run,     \* args.dry_run (False until parse_args reads --dry-run)
    caller,      \* who called the listing function: "main" (Spec), or "direct"
                 \* for a call of list_owned_in_folders on its own (ListSpec);
                 \* "none" before
    pc,          \* control position
    seen,        \* list_owned_in_folders: seen
    queue,       \* list_owned_in_folders: queue
    files,       \* the listing function's local files
    folder_id,   \* list_owned_in_folders: folder_id
    page_token,  \* the listing function's page_token
    main_files,  \* the value the listing function returned (main's files)
    idx,         \* main: position of the for loop in main_files
    requests,    \* log of files().list requests: [parent, token]
    responses,   \* log of their responses: [ok, count, next], the number of
                 \* items and the nextPageToken of the page (0, NoToken on error)
    last_response, \* how the last files().list request ended: "none", "ok", "error"
    grants,      \* log of permissions().create requests: [id, ok]
    output,      \* lines printed: [kind, id]
    exit_code    \* process exit code, -1 while running

vars == <<remote, folder_ids, dry_run, caller, pc, seen, queue, files, folder_id,
          page_token, main_files, idx, requests, responses, last_response, grants,
          output, exit_code>>

\* ------------------------------------------------------------ pure helpers
Min(a, b) == IF a < b THEN a ELSE b

SeqsUpTo(S, n) == UNION {[1..k -> S] : k \in 0..n}

\* The item dict the API returns: fields="nextPageToken, files(id, name, mimeType)".
ItemOf(r, id) == [id |-> id, mimeType |-> r[id].mimeType]

\* q = "'<folder>' in parents and trashed = false and '<source>' in owners"
ScopedMatchAnyOwner(r, parent, id) ==
    /\ parent \in r[id].parents
    /\ r[id].trashed = FALSE

ScopedMatch(r, parent, id) ==
    /\ parent \in r[id].parents
    /\ r[id].trashed = FALSE
    /\ r[id].owner = SOURCE

\* q = "'<source>' in owners and trashed = false"
UnscopedMatch(r, id) ==
    /\ r[id].owner = SOURCE
    /\ r[id].trashed = FALSE

ScopedListing(r, parent) ==
    SelectSeq(IdOrder, LAMBDA id : ScopedMatch(r, parent, id))

UnscopedListing(r) ==
    SelectSeq(IdOrder, LAMBDA id : UnscopedMatch(r, id))

\* One page of a listing: the items after offset token, and the continuation
\* token (absent when the listing is exhausted).
PageOf(r, listing, token, size) ==
    [files |-> [i \in 1..(Min(token + size, Len(listing)) - token) |->
                    ItemOf(r, listing[token + i])],
     nextPageToken |-> IF token + size < Len(listing) THEN token + size ELSE NoToken]

ScopedResponse(r, parent, token) ==
    PageOf(r, ScopedListing(r, parent), token, ScopedPageSize)

UnscopedResponse(r, token) ==
    PageOf(r, UnscopedListing(r), token, UnscopedPageSize)

\* if item.get("mimeType") == "application/vnd.google-apps.folder": queue.append(item["id"])
IsFolderItem(item) == item.mimeType = FOLDER

FoldersOf(items) ==
    LET fs == SelectSeq(items, IsFolderItem)
    IN  [i \in 1..Len(fs) |-> fs[i].id]

\* if folder_id in seen: continue
AlreadySeenNever(s, f) == FALSE

AlreadySeen(s, f) == f \in s

\* seen.add(folder_id)
MarkSeenNot(s, f) == s

MarkSeen(s, f) == s \cup {f}

\* ------------------------------------------------------------------- Init
Edges(r) == {e \in Ids \X Ids : e[2] \in r[e[1]].parents}

\* A drive the service can hold: only folders have children, and an item
\* under a trashed folder is trashed.  An item may have several parents, and
\* the parent links may form cycles.  Trashed items of other owners are left
\* out: no query tells them from untrashed ones.
RemoteOk(r) ==
    /\ Cardinality(Edges(r)) <= MaxEdges
    /\ \A id \in Ids :
        /\ \A p \in r[id].parents : r[p].mimeType = FOLDER
        /\ (\E p \in r[id].parents : r[p].trashed) => r[id].trashed
        /\ r[id].trashed => r[id].owner = SOURCE

Init ==
    /\ remote \in {r \in [Ids -> [mimeType : {FOLDER, PLAIN_FILE},
                                  owner : {SOURCE, STRANGER},
                                  trashed : BOOLEAN,
                                  parents : SUBSET Ids]] : RemoteOk(r)}
    /\ folder_ids \in SeqsUpTo(Ids, MaxRoots)
    /\ dry_run = FALSE
    /\ caller = "none"
    /\ pc = "start"
    /\ seen = {}
    /\ queue = <<>>
    /\ files = <<>>
    /\ folder_id = "none"
    /\ page_token = NoToken
    /\ main_files = <<>>
    /\ idx = 1
    /\ requests = <<>>
    /\ responses = <<>>
    /\ last_response = "none"
    /\ grants = <<>>
    /\ output = <<>>
    /\ exit_code = -1

\* ------------------------------------------------------- listing requests
Request(parent, token) == [parent |-> parent, token |-> token]

\* The unscoped query has no parent.
NoParent == "*"

\* What the log keeps of a page, and of a request that raised.
Answer(response) ==
    [ok |-> TRUE, count |-> Len(response.files), next |-> response.nextPageToken]

Raised == [ok |-> FALSE, count |-> 0, next |-> NoToken]

\* page_token = response.get("nextPageToken"); if not page_token: break
NextTokenNone(response) == NoToken

NextToken(response) == response.nextPageToken

\* for item in response.get("files", []): files.append(item)
CollectInFront(fs, items) == items \o fs

Collect(fs, items) == fs \o items

\* ... if mimeType is the folder type: queue.append(item["id"])
EnqueueNone(q, items) == q

EnqueueAll(q, items) == q \o [i \in 1..Len(items) |-> items[i].id]

EnqueueInFront(q, items) == FoldersOf(items) \o q

Enqueue(q, items) == q \o FoldersOf(items)

\* files: List[dict] = []
RootsAsFiles == [i \in 1..Len(folder_ids) |-> ItemOf(remote, folder_ids[i])]

InitialFiles == <<>>

\* queue = deque(folder_ids)
DefaultRootQueue(fids) == IF fids = <<>> THEN <<IdOrder[1]>> ELSE fids

InitialQueue(fids) == fids

\* if args.dry_run:
IsDryRunNever(d) == FALSE

IsDryRun(d) == d

\* if not files:
IsEmptyResultNever(fs) == FALSE

IsEmptyResult(fs) == fs = <<>>

\* except HttpError in the for loop: print, then go on with the next item
\* (i of n).
OnTransferErrorAbort(i, n) == n + 1

OnTransferErrorRetry(i, n) == i

OnTransferError(i, n) == i + 1

\* ------------------------------------------------------------------- main
\* main, lines 154-160, with a --folder-id list: parse_args, then the call of
\* list_owned_in_folders and its first three statements.
MainListScoped ==
    /\ pc = "start"
    /\ folder_ids # <<>>
    /\ \E d \in BOOLEAN : dry_run' = d
    /\ caller' = "main"
    /\ seen' = {}
    /\ queue' = InitialQueue(folder_ids)
    /\ files' = InitialFiles
    /\ pc' = "loop"
    /\ UNCHANGED <<remote, folder_ids, folder_id, page_token, main_files, idx,
                   requests, responses, last_response, grants, output, exit_code>>

\* main, lines 154-162, without --folder-id: the call of list_owned_files.
MainListUnscoped ==
    /\ pc = "start"
    /\ folder_ids = <<>>
    /\ \E d \in BOOLEAN : dry_run' = d
    /\ caller' = "main"
    /\ files' = <<>>
    /\ page_token' = NoToken
    /\ pc' = "all_page"
    /\ UNCHANGED <<remote, folder_ids, seen, queue, folder_id, main_files, idx,
                   requests, responses, last_response, grants, output, exit_code>>

\* list_owned_in_folders called on its own, lines 104-107, with any
\* folder_ids: the empty sequence, which main never passes (line 159), included.
DirectCall ==
    /\ pc = "start"
    /\ caller' = "direct"
    /\ seen' = {}
    /\ queue' = InitialQueue(folder_ids)
    /\ files' = InitialFiles
    /\ pc' = "loop"
    /\ UNCHANGED <<remote, folder_ids, dry_run, folder_id, page_token, main_files,
                   idx, requests, responses, last_response, grants, output, exit_code>>

\* ------------------------------------------------- list_owned_in_folders
\* lines 109-112: a dequeued folder that is in seen is skipped.
SkipSeen ==
    /\ pc = "loop"
    /\ queue # <<>>
    /\ AlreadySeen(seen, Head(queue))
    /\ queue' = Tail(queue)
    /\ folder_id' = Head(queue)
    /\ UNCHANGED <<remote, folder_ids, dry_run, caller, pc, seen, files, page_token,
                   main_files, idx, requests, responses, last_response, grants, output, exit_code>>

\* lines 109-118: a dequeued folder not in seen is marked and its query starts.
Expand ==
    /\ pc = "loop"
    /\ queue # <<>>
    /\ ~AlreadySeen(seen, Head(queue))
    /\ queue' = Tail(queue)
    /\ folder_id' = Head(queue)
    /\ seen' = MarkSeen(seen, Head(queue))
    /\ page_token' = NoToken
    /\ pc' = "page"
    /\ UNCHANGED <<remote, folder_ids, dry_run, caller, files, main_files, idx,
                   requests, responses, last_response, grants, output, exit_code>>

\* lines 119-138: one page request that succeeds.
FetchPage ==
    /\ pc = "page"
    /\ Len(requests) < MaxRequests
    /\ LET response == ScopedResponse(remote, folder_id, page_token)
       IN  /\ requests' = Append(requests, Request(folder_id, page_token))
           /\ responses' = Append(responses, Answer(response))
           /\ last_response' = "ok"
           /\ files' = Collect(files, response.files)
           /\ queue' = Enqueue(queue, response.files)
           /\ page_token' = NextToken(response)
           /\ pc' = IF NextToken(response) = NoToken THEN "loop" ELSE "page"
    /\ UNCHANGED <<remote, folder_ids, dry_run, caller, seen, folder_id, main_files,
                   idx, grants, output, exit_code>>

\* What an HttpError of a listing request leads to: the listing function does
\* not return, so main's files is never assigned; main prints and returns 1
\* (lines 163-165); a direct caller sees the exception.
ListingRaisedSwallowed ==
    /\ main_files' = files
    /\ pc' = IF caller = "main" THEN "listed" ELSE "returned"
    /\ exit_code' = exit_code
    /\ output' = output

ListingRaisedNoReturn ==
    /\ main_files' = files
    /\ pc' = IF caller = "main" THEN "listed" ELSE "returned"
    /\ exit_code' = exit_code
    /\ output' = Append(output, [kind |-> "failed_to_list", id |-> NoParent])

ListingRaised ==
    /\ main_files' = main_files
    /\ pc' = IF caller = "main" THEN "exit" ELSE "raised"
    /\ exit_code' = IF caller = "main" THEN 1 ELSE exit_code
    /\ output' = IF caller = "main"
                 THEN Append(output, [kind |-> "failed_to_list", id |-> NoParent])
                 ELSE output

\* lines 120-131: a page request that raises HttpError.
FetchPageFails ==
    /\ pc = "page"
    /\ Len(requests) < MaxRequests
    /\ requests' = Append(requests, Request(folder_id, page_token))
    /\ responses' = Append(responses, Raised)
    /\ last_response' = "error"
    /\ ListingRaised
    /\ UNCHANGED <<remote, folder_ids, dry_run, caller, seen, queue, files, folder_id,
                   page_token, idx, grants>>

\* lines 109 and 139: the queue is empty, the function returns files.
ReturnScoped ==
    /\ pc = "loop"
    /\ queue = <<>>
    /\ main_files' = files
    /\ pc' = IF caller = "main" THEN "listed" ELSE "returned"
    /\ UNCHANGED <<remote, folder_ids, dry_run, caller, seen, queue, files, folder_id,
                   page_token, idx, requests, responses, last_response, grants, output, exit_code>>

\* ------------------------------------------------------ list_owned_files
\* lines 84-101: one page request that succeeds; after the last page the
\* function returns files.
FetchAll ==
    /\ pc = "all_page"
    /\ Len(requests) < MaxRequests
    /\ LET response == UnscopedResponse(remote, page_token)
       IN  /\ requests' = Append(requests, Request(NoParent, page_token))
           /\ responses' = Append(responses, Answer(response))
           /\ last_response' = "ok"
           /\ files' = Collect(files, response.files)
           /\ page_token' = NextToken(response)
           /\ IF NextToken(response) = NoToken
              THEN /\ main_files' = files'
                   /\ pc' = "listed"
              ELSE /\ main_files' = main_files
                   /\ pc' = "all_page"
    /\ UNCHANGED <<remote, folder_ids, dry_run, caller, seen, queue, folder_id, idx,
                   grants, output, exit_code>>

\* lines 85-96: a page request that raises HttpError.
FetchAllFails ==
    /\ pc = "all_page"
    /\ Len(requests) < MaxRequests
    /\ requests' = Append(requests, Request(NoParent, page_token))
    /\ responses' = Append(responses, Raised)
    /\ last_response' = "error"
    /\ ListingRaised
    /\ UNCHANGED <<remote, folder_ids, dry_run, caller, seen, queue, files, folder_id,
                   page_token, idx, grants>>

\* --------------------------------------------------- main, after listing
Line(kind, id) == [kind |-> kind, id |-> id]

\* lines 167-169
MainNoFiles ==
    /\ pc = "listed"
    /\ IsEmptyResult(main_files)
    /\ output' = Append(output, Line("no_files", NoParent))
    /\ exit_code' = 0
    /\ pc' = "exit"
    /\ UNCHANGED <<remote, folder_ids, dry_run, caller, seen, queue, files, folder_id,
                   page_token, main_files, idx, requests, responses, last_response, grants>>

\* line 171
MainFound ==
    /\ pc = "listed"
    /\ ~IsEmptyResult(main_files)
    /\ output' = Append(output, Line("found", NoParent))
    /\ idx' = 1
    /\ pc' = "transfer"
    /\ UNCHANGED <<remote, folder_ids, dry_run, caller, seen, queue, files, folder_id,
                   page_token, main_files, requests, responses, last_response, grants, exit_code>>

\* transfer_file succeeded: the target is the owner now.
Granted(r, id) == [r EXCEPT ![id].owner = TARGET]

\* lines 173-176
TransferDry ==
    /\ pc = "transfer"
    /\ idx <= Len(main_files)
    /\ IsDryRun(dry_run)
    /\ output' = Append(output, Line("would_transfer", main_files[idx].id))
    /\ idx' = idx + 1
    /\ UNCHANGED <<remote, folder_ids, dry_run, caller, pc, seen, queue, files,
                   folder_id, page_token, main_files, requests, responses, last_response, grants, exit_code>>

\* lines 177-179, transfer_file lines 142-150
TransferOk ==
    /\ pc = "transfer"
    /\ idx <= Len(main_files)
    /\ ~IsDryRun(dry_run)
    /\ grants' = Append(grants, [id |-> main_files[idx].id, ok |-> TRUE])
    /\ remote' = Granted(remote, main_files[idx].id)
    /\ output' = Append(output, Line("transferred", main_files[idx].id))
    /\ idx' = idx + 1
    /\ UNCHANGED <<folder_ids, dry_run, caller, pc, seen, queue, files, folder_id,
                   page_token, main_files, requests, responses, last_response, exit_code>>

\* lines 177-184: transfer_file raises HttpError
TransferFails ==
    /\ pc = "transfer"
    /\ idx <= Len(main_files)
    /\ ~IsDryRun(dry_run)
    /\ grants' = Append(grants, [id |-> main_files[idx].id, ok |-> FALSE])
    /\ output' = Append(output, Line("failed", main_files[idx].id))
    /\ idx' = OnTransferError(idx, Len(main_files))
    /\ UNCHANGED <<remote, folder_ids, dry_run, caller, pc, seen, queue, files,
                   folder_id, page_token, main_files, requests, responses, last_response, exit_code>>

\* line 185
MainDone ==
    /\ pc = "transfer"
    /\ idx > Len(main_files)
    /\ exit_code' = 0
    /\ pc' = "exit"
    /\ UNCHANGED <<remote, folder_ids, dry_run, caller, seen, queue, files, folder_id,
                   page_token, main_files, idx, requests, responses, last_response, grants, output>>

\* The program: main and the listing function it calls.
Next ==
    \/ MainListScoped
    \/ MainListUnscoped
    \/ SkipSeen
    \/ Expand
    \/ FetchPage
    \/ FetchPageFails
    \/ ReturnScoped
    \/ FetchAll
    \/ FetchAllFails
    \/ MainNoFiles
    \/ MainFound
    \/ TransferDry
    \/ TransferOk
    \/ TransferFails
    \/ MainDone

Spec == Init /\ [][Next]_vars

\* list_owned_in_folders called on its own.
ListNext ==
    \/ DirectCall
    \/ SkipSeen
    \/ Expand
    \/ FetchPage
    \/ FetchPageFails
    \/ ReturnScoped

ListSpec == Init /\ [][ListNext]_vars

\* The call runs on: fairness of the single thread of control.
FairListSpec == ListSpec /\ WF_vars(ListNext)

\* ================================================================ claims
Roots == {folder_ids[i] : i \in 1..Len(folder_ids)}

\* The call under study is list_owned_in_folders.
Scoped == folder_ids # <<>> \/ caller = "direct"

\* list_owned_in_folders has returned its list (every page request succeeded).
ScopedReturned == Scoped /\ pc \in {"listed", "returned"}

ResultIds == {main_files[i].id : i \in 1..Len(main_files)}

Occurrences(id) == Cardinality({i \in 1..Len(main_files) : main_files[i].id = id})

SourceOwned(id) == remote[id].owner = SOURCE

\* The source-owned folders that are children of a folder of S.
OwnedSubFolders(S) ==
    {c \in Ids : /\ remote[c].mimeType = FOLDER
                 /\ SourceOwned(c)
                 /\ \E p \in S : p \in remote[c].parents}

RECURSIVE FolderClosure(_)
FolderClosure(S) ==
    LET N == S \cup OwnedSubFolders(S)
    IN  IF N = S THEN S ELSE FolderClosure(N)

\* The non-trashed source-owned children of the roots and of the source-owned
\* folders reachable from them through source-owned sub-folders.
ReachableItems ==
    {c \in Ids : /\ SourceOwned(c)
                 /\ ~remote[c].trashed
                 /\ \E p \in FolderClosure(Roots) : p \in remote[c].parents}

RECURSIVE AncestorClosure(_)
AncestorClosure(S) ==
    LET N == S \cup UNION {remote[c].parents : c \in S}
    IN  IF N = S THEN S ELSE AncestorClosure(N)

Acyclic == \A id \in Ids : id \notin AncestorClosure(remote[id].parents)

Expanded(f) == \E i \in 1..Len(requests) : requests[i].parent = f

FirstPageRequests(f) ==
    Cardinality({i \in 1..Len(requests) :
                    requests[i].parent = f /\ requests[i].token = NoToken})

LinesOf(kind) == SelectSeq(output, LAMBDA l : l.kind = kind)

FailedGrants == SelectSeq(grants, LAMBDA g : ~g.ok)

\* The guard on the number of requests never stops the program.
RequestCapNotReached == Len(requests) < MaxRequests

\* C1 (as stated): on a drive without parent cycles, when
\* list_owned_in_folders returns, every reachable source-owned item occurs
\* exactly once in the returned list.
C1_ExactlyOnce ==
    (ScopedReturned /\ Acyclic) =>
        \A id \in ReachableItems : Occurrences(id) = 1

\* C2: when list_owned_in_folders returns, the ids of its list are exactly
\* the non-trashed source-owned items under the roots and under the
\* source-owned folders reachable from them.
C2_ExactSet == ScopedReturned => ResultIds = ReachableItems

\* C2's case: a list that holds an item found below a sub-folder (none of its
\* parents is a root) while a child of an expanded folder was filtered out.
C2_Witness ==
    /\ ScopedReturned
    /\ \E c \in ResultIds : remote[c].parents \cap Roots = {}
    /\ \E c \in Ids : c \notin ResultIds /\ remote[c].parents \cap seen # {}

\* C3: no folder has its first page requested more than once in a traversal.
C3_ExpandedOnce == \A f \in Ids : FirstPageRequests(f) <= 1

\* C3's case: a folder that is its own child was expanded, listed itself,
\* was enqueued again, and the traversal returned.
C3_Witness ==
    /\ ScopedReturned
    /\ \E f \in Ids : f \in remote[f].parents /\ Expanded(f) /\ f \in ResultIds

\* C4: the listing ends: list_owned_in_folders returns or a listing error is
\* raised, on every drive, parent cycles included.
C4_Terminates ==
    <>(pc \in {"listed", "returned", "raised"} \/ last_response = "error")

\* C4's case: two folders that are each other's child were both expanded and
\* the traversal returned.
C4_Witness ==
    /\ ScopedReturned
    /\ \E f, g \in Ids : /\ f # g
                         /\ f \in remote[g].parents
                         /\ g \in remote[f].parents
                         /\ Expanded(f)
                         /\ Expanded(g)

\* C5: once a listing page request has failed, the run has ended with exit
\* code 1, main never received a list, and nothing was granted or reported
\* as transferred.
C5_ListingErrorIsFatal ==
    last_response = "error" =>
        /\ pc = "exit"
        /\ exit_code = 1
        /\ main_files = <<>>
        /\ grants = <<>>
        /\ output = <<[kind |-> "failed_to_list", id |-> NoParent]>>

\* C5's case: the failing request came after an earlier folder and earlier
\* pages had been listed with items collected.
C5_Witness ==
    /\ last_response = "error"
    /\ files # <<>>
    /\ Len(requests) >= 3
    /\ requests[1].parent # requests[Len(requests)].parent
    /\ requests[Len(requests)].token # NoToken

\* C6: in a real run over a nonempty list the grant is attempted for every
\* item in turn whatever failed before, the failures reported are the grants
\* that failed, and the exit code is 0.
C6_FailuresIsolated ==
    /\ (pc = "transfer" /\ ~dry_run) =>
            /\ Len(grants) = idx - 1
            /\ idx <= Len(main_files) + 1
    /\ (pc = "exit" /\ ~dry_run /\ main_files # <<>>) =>
            /\ exit_code = 0
            /\ Len(grants) = Len(main_files)
            /\ \A i \in 1..Len(grants) : grants[i].id = main_files[i].id
            /\ Len(LinesOf("failed")) = Len(FailedGrants)
            /\ Len(LinesOf("transferred")) = Len(grants) - Len(FailedGrants)

\* C6's case: a finished real run in which a grant failed and the grant of
\* the next item succeeded.
C6_Witness ==
    /\ pc = "exit"
    /\ ~dry_run
    /\ \E i \in 1..(Len(grants) - 1) : ~grants[i].ok /\ grants[i + 1].ok

\* C7: in dry-run mode no grant is ever requested and no item changes owner;
\* at the end every item of a nonempty list has its "would transfer" line and
\* the exit code is 0.  (No item is owned by the target before the run.)
C7_DryRunNoGrant ==
    dry_run =>
        /\ grants = <<>>
        /\ \A id \in Ids : remote[id].owner # TARGET
        /\ (pc = "exit" /\ main_files # <<>>) =>
                /\ exit_code = 0
                /\ LinesOf("would_transfer") =
                       [i \in 1..Len(main_files) |->
                           [kind |-> "would_transfer", id |-> main_files[i].id]]
                /\ LinesOf("transferred") = <<>>

\* C7's case: a finished dry run over at least two items.
C7_Witness ==
    /\ pc = "exit"
    /\ dry_run
    /\ Len(main_files) >= 2
    /\ Len(LinesOf("would_transfer")) >= 2

\* C8: list_owned_in_folders called with the empty sequence issues no listing
\* request and returns the empty list.
C8_EmptyRoots ==
    (caller = "direct" /\ folder_ids = <<>>) =>
        /\ requests = <<>>
        /\ pc \in {"loop", "returned"}
        /\ pc = "returned" => main_files = <<>>

\* C8's case: the call with the empty sequence has returned.
C8_Witness == caller = "direct" /\ folder_ids = <<>> /\ pc = "returned"

\* C9: a listing that succeeds with no item makes main report "no files",
\* request no grant and exit with code 0, in dry-run and in real mode; the
\* transfer loop is entered only with a nonempty list.
C9_NothingToDo ==
    /\ (pc = "exit" /\ last_response # "error" /\ main_files = <<>>) =>
            /\ exit_code = 0
            /\ grants = <<>>
            /\ output = <<[kind |-> "no_files", id |-> NoParent]>>
    /\ pc = "transfer" => main_files # <<>>

\* C9's case: a real run whose listing requests all succeeded and matched
\* nothing has ended.
C9_Witness ==
    /\ pc = "exit"
    /\ ~dry_run
    /\ requests # <<>>
    /\ last_response = "ok"
    /\ main_files = <<>>

KindFolderIds(items) ==
    LET fs == SelectSeq(items, LAMBDA it : it.mimeType = FOLDER)
    IN  [i \in 1..Len(fs) |-> fs[i].id]

\* The queue holds only roots and folder-kind items of the list so far.
QueueFromRootsOrFolders ==
    \A i \in 1..Len(queue) :
        \/ queue[i] \in Roots
        \/ \E j \in 1..Len(files) :
               files[j].id = queue[i] /\ files[j].mimeType = FOLDER

\* A page of a scoped traversal appends to the queue the ids of exactly the
\* folder-kind items it appends to the list, in order, seen or queued or not.
PageEnqueuesFolders ==
    (pc = "page" /\ last_response' = "ok" /\ requests' # requests) =>
        queue' = queue \o KindFolderIds(SubSeq(files', Len(files) + 1, Len(files')))

\* C10: every folder-kind item is enqueued when it is discovered, a
\* non-folder item never is: the queue holds only roots and folder-kind items
\* already in the list.
C10_EnqueueFolders == []QueueFromRootsOrFolders /\ [][PageEnqueuesFolders]_vars

\* C10's case: a page brought a folder that was already in seen and a
\* non-folder item; the folder sits in the queue.
C10_Witness ==
    /\ pc = "loop"
    /\ \E i \in 1..Len(queue) : queue[i] \in seen /\ queue[i] \in {files[j].id : j \in 1..Len(files)}
    /\ \E j \in 1..Len(files) : files[j].mimeType # FOLDER

\* The non-trashed source-owned children of folder p, in the remote's order.
ListedChildren(p) ==
    SelectSeq(IdOrder, LAMBDA c : /\ p \in remote[c].parents
                                  /\ SourceOwned(c)
                                  /\ ~remote[c].trashed)

\* The folders that the listings of the folders of S return.
ListedSubFolders(S) ==
    {c \in Ids : /\ remote[c].mimeType = FOLDER
                 /\ \E p \in S : \E i \in 1..Len(ListedChildren(p)) :
                        ListedChildren(p)[i] = c}

RECURSIVE DistanceFrom(_, _, _)
DistanceFrom(f, S, d) ==
    IF f \in S THEN d
    ELSE IF ListedSubFolders(S) \subseteq S THEN -1
    ELSE DistanceFrom(f, S \cup ListedSubFolders(S), d + 1)

\* Breadth-first distance of folder f from the roots (-1: not reachable).
BfsDistance(f) == DistanceFrom(f, Roots, 0)

RECURSIVE OriginFrom(_, _, _)
OriginFrom(i, k, before) ==
    IF i <= before + responses[k].count THEN [request |-> k, place |-> i - before]
    ELSE OriginFrom(i, k + 1, before + responses[k].count)

\* The request whose page brought entry i of files, and the entry's place in
\* that page.
Origin(i) == OriginFrom(i, 1, 0)

FoundUnder(i) == requests[Origin(i).request].parent

\* Entry i of files is the item the remote holds at its place of its page.
InPageOrder(i) ==
    LET o == Origin(i)
        listing == ListedChildren(requests[o.request].parent)
    IN  /\ requests[o.request].token + o.place <= Len(listing)
        /\ files[i].id = listing[requests[o.request].token + o.place]

\* C11: the list is in breadth-first level order: an item found under a
\* folder nearer to the roots precedes an item found under a farther one, and
\* the items of one folder come page by page in the order of each page.
C11_LevelOrder ==
    /\ \A i \in 1..Len(files) :
           /\ BfsDistance(FoundUnder(i)) >= 0
           /\ InPageOrder(i)
    /\ \A i, j \in 1..Len(files) :
           i < j => BfsDistance(FoundUnder(i)) <= BfsDistance(FoundUnder(j))

\* C11's case: the returned list holds two items of one page of a root and,
\* after them, an item found one level down.
C11_Witness ==
    /\ ScopedReturned
    /\ \E i, j \in 1..Len(main_files) :
           /\ BfsDistance(FoundUnder(i)) = 0
           /\ Origin(i).place = 2
           /\ BfsDistance(FoundUnder(j)) = 1

\* C12: the pages of one folder are requested in sequence and to the end: a
\* request carries a token exactly when the response just before it returned
\* one, it then carries that token for the same folder, and after a response
\* with a token the function is about to request that next page.
C12_Pagination ==
    \A k \in 1..Len(requests) :
        /\ (k = 1 \/ responses[k - 1].next = NoToken) => requests[k].token = NoToken
        /\ (k > 1 /\ responses[k - 1].next # NoToken) =>
               /\ responses[k - 1].ok
               /\ requests[k].parent = requests[k - 1].parent
               /\ requests[k].token = responses[k - 1].next
        /\ (k = Len(requests) /\ responses[k].next # NoToken) =>
               /\ pc = "page"
               /\ folder_id = requests[k].parent
               /\ page_token = responses[k].next

\* C12's case: a folder took two pages, then another folder was listed, and
\* the traversal returned.
C12_Witness ==
    /\ ScopedReturned
    /\ \E k \in 2..(Len(requests) - 1) :
           /\ requests[k].token # NoToken
           /\ requests[k + 1].parent # requests[k].parent

ListIds == [i \in 1..Len(main_files) |-> main_files[i].id]

GrantIds == [i \in 1..Len(grants) |-> grants[i].id]

\* C13: the grant requests of a real run are the ids of the list in list
\* order, one request per entry whether it succeeds or fails: at any moment
\* the requests made are a prefix of the list, and at the end all of it.
C13_GrantsFollowList ==
    /\ Len(grants) <= Len(main_files)
    /\ GrantIds = SubSeq(ListIds, 1, Len(grants))
    /\ (pc = "exit" /\ exit_code = 0 /\ ~dry_run) => Len(grants) = Len(main_files)

\* C13's case: a finished real run over a list that holds one item twice,
\* its first grant having failed.
C13_Witness ==
    /\ pc = "exit"
    /\ ~dry_run
    /\ \E i, j \in 1..Len(grants) :
           /\ i < j
           /\ grants[i].id = grants[j].id
           /\ ~grants[i].ok

\* C14: the traversal expands only roots and source-owned folders, so every
\* entry of the list was found under a root or under a source-owned folder:
\* a source-owned item whose only way in leads through a folder of another
\* owner is not listed.
C14_NoForeignDescent ==
    /\ \A k \in 1..Len(requests) :
           requests[k].parent \in Roots \/ SourceOwned(requests[k].parent)
    /\ \A i \in 1..Len(queue) : queue[i] \in Roots \/ SourceOwned(queue[i])
    /\ \A i \in 1..Len(files) :
           /\ SourceOwned(files[i].id)
           /\ FoundUnder(i) \in remote[files[i].id].parents
           /\ FoundUnder(i) \in Roots \/ SourceOwned(FoundUnder(i))

\* C14's case: the traversal returned; a folder of another owner, not a
\* root, lies in an expanded folder and holds a non-trashed source-owned item
\* that the list does not have.
C14_Witness ==
    /\ ScopedReturned
    /\ \E f, c \in Ids :
           /\ remote[f].mimeType = FOLDER
           /\ ~SourceOwned(f)
           /\ f \notin Roots
           /\ remote[f].parents \cap seen # {}
           /\ f \in remote[c].parents
           /\ SourceOwned(c)
           /\ ~remote[c].trashed
           /\ c \notin ResultIds

\* main called list_owned_files.
Unscoped == caller = "main" /\ folder_ids = <<>>

\* All the non-trashed source-owned items, in the remote's order.
AllOwned == SelectSeq(IdOrder, LAMBDA c : SourceOwned(c) /\ ~remote[c].trashed)

PagesOf(n) ==
    IF n = 0 THEN 1 ELSE (n + UnscopedPageSize - 1) \div UnscopedPageSize

\* C15: list_owned_files issues one query page by page and nothing else: no
\* request has a parent, each request after the first carries the token of
\* the response before it, no page is requested twice, and on return there
\* was one request per page and the list is the pages in order, that is the
\* remote's whole listing.
C15_SingleQuery ==
    Unscoped =>
        /\ \A k \in 1..Len(requests) :
               /\ requests[k].parent = NoParent
               /\ requests[k].token =
                      IF k = 1 THEN NoToken ELSE responses[k - 1].next
               /\ \A m \in 1..Len(requests) :
                      m # k => requests[m].token # requests[k].token
        /\ pc = "listed" =>
               /\ Len(requests) = PagesOf(Len(AllOwned))
               /\ ListIds = AllOwned
               /\ \A k \in 1..Len(responses) : responses[k].ok

\* C15's case: the unscoped listing returned after two pages, with a folder
\* and an item of that folder both in the list.
C15_Witness ==
    /\ Unscoped
    /\ pc = "listed"
    /\ Len(requests) = 2
    /\ \E i, j \in 1..Len(main_files) :
           /\ main_files[i].mimeType = FOLDER
           /\ main_files[i].id \in remote[main_files[j].id].parents

\* Every request of the listing was answered and the last page had no token.
ListingComplete ==
    /\ requests # <<>>
    /\ \A k \in 1..Len(responses) : responses[k].ok
    /\ responses[Len(responses)].next = NoToken

GrantsAfterListing ==
    /\ grants # <<>> => pc \in {"transfer", "exit"} /\ ListingComplete
    /\ exit_code = 1 =>
           /\ grants = <<>>
           /\ \A id \in Ids : remote[id].owner # TARGET

NoRequestAfterGrant == requests' # requests => grants' = <<>>

\* C16: a grant is requested only after the whole listing has succeeded, no
\* listing request follows a grant, and a run that ends with exit code 1 has
\* requested no grant and changed no owner.
C16_ListingBeforeGrants == []GrantsAfterListing /\ [][NoRequestAfterGrant]_vars

\* C16's case: a run that needed several listing requests has ended with
\* grants made.
C16_Witness ==
    /\ pc = "exit"
    /\ Len(requests) >= 3
    /\ Len(grants) >= 2

\* The listing of folder p returns item c.
ListedChildOf(p, c) ==
    /\ p \in remote[c].parents
    /\ SourceOwned(c)
    /\ ~remote[c].trashed

\* C17 (as stated): a root is in the returned list only if the listing of
\* some other expanded folder returned it.
C17_OnlyViaAnotherFolder ==
    ScopedReturned =>
        \A r \in Roots :
            r \in ResultIds =>
                \E p \in Ids \ {r} : Expanded(p) /\ ListedChildOf(p, r)

\* C17 (amended): a root is in the list only if the listing of some expanded
\* folder returned it, be it another folder or, when the root is its own
\* parent, the root itself; every root is expanded, and a root that no
\* expanded folder lists is not in the returned list.
C17_RootListedOnlyAsChild ==
    /\ \A i \in 1..Len(files) :
           files[i].id \in Roots =>
               \E p \in seen : ListedChildOf(p, files[i].id)
    /\ ScopedReturned =>
           \A r \in Roots :
               /\ Expanded(r)
               /\ r \in ResultIds => \E p \in Ids : Expanded(p) /\ ListedChildOf(p, r)

\* C17's case: the traversal returned; one root is in the list although only
\* its own listing returned it, another root was expanded and is not in it.
C17_Witness ==
    /\ ScopedReturned
    /\ \E r \in Roots :
           /\ r \in ResultIds
           /\ \A p \in Ids \ {r} : ~(Expanded(p) /\ ListedChildOf(p, r))
    /\ \E r \in Roots : Expanded(r) /\ r \notin ResultIds

====
